---- MODULE Spec2Model ----
(***************************************************************************)
(* Lissajous knots (rinaldipp/lissajous_knots): the curve sampler          *)
(* lissajous_knot, the figure builder plot_curves (src/lissajous.py) and   *)
(* the Dash callback update_graph that chains them (src/app.py).           *)
(*                                                                         *)
(* Numbers.  Floating point values are modelled in fixed point:            *)
(*   - a coordinate v is the integer v * Scale;                            *)
(*   - an angle is an exact rational multiple of pi, the pair <<k, d>>     *)
(*     standing for k*pi/d, so the linspace grid and the phase slider      *)
(*     positions (multiples of pi/4) are represented without error;        *)
(*   - a frequency is in units of 1/FreqDen: the number inputs a, b, c     *)
(*     also take non-integer values;                                       *)
(*   - camera coordinates and the offset ratio are in tenths.              *)
(***************************************************************************)
EXTENDS Integers, Sequences, FiniteSets, TLC

VARIABLES inputs, curve, figure, active, op, memo

vars == <<inputs, curve, figure, active, op, memo>>

(***************************************************************************)
(* Bounds of the model                                                     *)
(***************************************************************************)
MaxPoints == 3
MaxFreq == 3
MaxPhase == 1

(***************************************************************************)
(* Program constants                                                       *)
(***************************************************************************)
Scale == 10000
PiFix == 31416
PhaseDen == 4
FreqDen == 2
Offset == 15
DefaultPhi == 2
FigWidth == 850
FigHeight == 850

(***************************************************************************)
(* Input domains of the six dcc.Input components                           *)
(***************************************************************************)
Freqs == 1..MaxFreq
Phases == 0..MaxPhase
NPoints == 1..MaxPoints

(* a component's initial value (its value= in app.layout), capped by the   *)
(* bound of its domain                                                     *)
Capped(value, max) == IF value <= max THEN value ELSE max

DefaultInputs ==
    [a |-> Capped(3 * FreqDen, MaxFreq), b |-> Capped(4 * FreqDen, MaxFreq),
     c |-> Capped(2 * FreqDen, MaxFreq),
     phi1 |-> Capped(DefaultPhi, MaxPhase), phi2 |-> Capped(DefaultPhi, MaxPhase),
     n_points |-> Capped(100, MaxPoints)]

(***************************************************************************)
(* np.cos on an angle k*pi/d, result scaled by Scale.                      *)
(* The argument is reduced to the first quadrant by the symmetries of the  *)
(* cosine, then evaluated by its Taylor polynomial up to x^8 in Horner     *)
(* form (truncation error below half a unit of 1/Scale).                   *)
(***************************************************************************)
Radians(k, d) == (2 * PiFix * k + d) \div (2 * d)

CosQuadrant(k, d) ==
    LET x  == Radians(k, d)
        x2 == (x * x) \div Scale
        t4 == Scale - x2 \div 56
        t3 == Scale - (x2 * t4) \div (30 * Scale)
        t2 == Scale - (x2 * t3) \div (12 * Scale)
    IN  Scale - (x2 * t2) \div (2 * Scale)

Cos(k, d) ==
    LET m == k % (2 * d)
        h == IF m > d THEN 2 * d - m ELSE m
    IN  IF 2 * h > d THEN 0 - CosQuadrant(d - h, d) ELSE CosQuadrant(h, d)

(***************************************************************************)
(* np.linspace(-np.pi, np.pi, num): num samples, both endpoints included.  *)
(* Sample i is the angle (2*i - div)*pi/div with div = num - 1; numpy      *)
(* returns the single sample -pi for num = 1 and the empty array for 0.    *)
(***************************************************************************)
(* mutant: the half-open grid of linspace(..., endpoint=False) *)
LinspaceDivHalfOpen(num) == num

LinspaceDiv(num) == IF num > 1 THEN num - 1 ELSE 1

Linspace(num) == [i \in 1..num |-> 2 * (i - 1) - LinspaceDiv(num)]

(***************************************************************************)
(* np.min of a non-empty array                                             *)
(***************************************************************************)
Min(arr) == CHOOSE v \in {arr[i] : i \in DOMAIN arr} :
                \A w \in {arr[i] : i \in DOMAIN arr} : v <= w

(* mutant: the offset recomputed from each point instead of the minimum *)
OffsetArrayPerPoint(arr, offset) == [i \in DOMAIN arr |-> (arr[i] * offset) \div 10]

(* np.min(x) * np.ones(x.shape) * offset *)
OffsetArray(arr, offset) ==
    LET m == Min(arr) IN [i \in DOMAIN arr |-> (m * offset) \div 10]

(***************************************************************************)
(* lissajous_knot(a, b, c, phi1, phi2, n_points, offset=1.5)               *)
(* a, b, c are in units of 1/FreqDen, phi1, phi2 in units of pi/PhaseDen.  *)
(* With t[i] = k*pi/div the angle f*t[i] + phi is                          *)
(* (f*PhaseDen*k + phi*FreqDen*div) * pi / (FreqDen*PhaseDen*div).         *)
(***************************************************************************)
(* mutant: the phase added to the cosine instead of to its argument *)
CosArrayPhaseOutside(f, phi, t, div) ==
    [i \in DOMAIN t |->
        Cos(f * PhaseDen * t[i], FreqDen * PhaseDen * div)
            + (phi * PiFix) \div PhaseDen]

CosArray(f, phi, t, div) ==
    [i \in DOMAIN t |->
        Cos(f * PhaseDen * t[i] + phi * FreqDen * div, FreqDen * PhaseDen * div)]

lissajous_knot(a, b, c, phi1, phi2, n_points) ==
    LET div == LinspaceDiv(n_points)
        t == Linspace(n_points)
        x == CosArray(a, phi1, t, div)
        y == CosArray(b, phi2, t, div)
        z == CosArray(c, 0, t, div)
    IN  [x |-> x, y |-> y, z |-> z,
         x_offset |-> OffsetArray(x, Offset),
         y_offset |-> OffsetArray(y, Offset),
         z_offset |-> OffsetArray(z, Offset)]

(***************************************************************************)
(* plot_curves(x, y, z, x_offset, y_offset, z_offset, figsize=(850, 850))  *)
(***************************************************************************)
(* arr[n] with the source's 0-based index *)
At(arr, n) == arr[n + 1]

(* mutant: the last segment does not close the curve *)
PairOpen(arr, n, n_points) ==
    IF n < n_points - 1 THEN <<At(arr, n), At(arr, n + 1)>>
                        ELSE <<At(arr, n), At(arr, n)>>

(* [arr[n], arr[n + 1]] if n < n_points - 1 else [arr[n], arr[0]] *)
Pair(arr, n, n_points) ==
    IF n < n_points - 1 THEN <<At(arr, n), At(arr, n + 1)>>
                        ELSE <<At(arr, n), At(arr, 0)>>

(* go.Scatter3d(x=, y=, z=, mode="lines", line=dict(color=, width=), ...) *)
Scatter3d(x, y, z, color, width, name, showlegend) ==
    [x |-> x, y |-> y, z |-> z, mode |-> "lines",
     line |-> [color |-> color, width |-> width],
     name |-> name, legendgroup |-> name, showlegend |-> showlegend]

(* mutant: every segment shows in the legend *)
ShowLegendAlways(n) == TRUE

(* showlegend = True if n == 0 else False *)
ShowLegend(n) == n = 0

(* mutant: the shadow of x emitted before the 3D segment *)
LoopBodyShadowFirst(c, n, n_points) ==
    LET showlegend == ShowLegend(n)
    IN  << Scatter3d(Pair(c.x_offset, n, n_points), Pair(c.y, n, n_points),
                     Pair(c.z, n, n_points),
                     "mediumspringgreen", 3, "X Offset", showlegend),
           Scatter3d(Pair(c.x, n, n_points), Pair(c.y, n, n_points),
                     Pair(c.z, n, n_points),
                     "darkgoldenrod", 6, "3D", showlegend),
           Scatter3d(Pair(c.x, n, n_points), Pair(c.y_offset, n, n_points),
                     Pair(c.z, n, n_points),
                     "mediumspringgreen", 3, "Y Offset", showlegend),
           Scatter3d(Pair(c.x, n, n_points), Pair(c.y, n, n_points),
                     Pair(c.z_offset, n, n_points),
                     "mediumspringgreen", 3, "Z Offset", showlegend) >>

(* the four fig.add_trace calls of one iteration of the loop, in order *)
LoopBody(c, n, n_points) ==
    LET showlegend == ShowLegend(n)
    IN  << Scatter3d(Pair(c.x, n, n_points), Pair(c.y, n, n_points),
                     Pair(c.z, n, n_points),
                     "darkgoldenrod", 6, "3D", showlegend),
           Scatter3d(Pair(c.x_offset, n, n_points), Pair(c.y, n, n_points),
                     Pair(c.z, n, n_points),
                     "mediumspringgreen", 3, "X Offset", showlegend),
           Scatter3d(Pair(c.x, n, n_points), Pair(c.y_offset, n, n_points),
                     Pair(c.z, n, n_points),
                     "mediumspringgreen", 3, "Y Offset", showlegend),
           Scatter3d(Pair(c.x, n, n_points), Pair(c.y, n, n_points),
                     Pair(c.z_offset, n, n_points),
                     "mediumspringgreen", 3, "Z Offset", showlegend) >>

RECURSIVE Loop(_, _, _)
RECURSIVE LoopOpen(_, _, _)
(* mutant: for n in range(n_points - 1), an open polyline *)
LoopOpen(c, n, n_points) ==
    IF n >= n_points - 1 THEN <<>>
    ELSE LoopBody(c, n, n_points) \o LoopOpen(c, n + 1, n_points)

(* for n in range(n_points): the traces added by iterations n .. n_points-1 *)
Loop(c, n, n_points) ==
    IF n >= n_points THEN <<>>
    ELSE LoopBody(c, n, n_points) \o Loop(c, n + 1, n_points)

(* camera vectors in tenths *)
Vec(x, y, z) == [x |-> x, y |-> y, z |-> z]

(* one button of the updatemenus: method "relayout" on the three camera keys *)
Button(label, eye, up, center) ==
    [label |-> label, method |-> "relayout",
     args |-> [eye |-> eye, up |-> up, center |-> center]]

(* mutant: the Top button with the up vector of its neighbours *)
ButtonsTopUpZ ==
    << Button("Default",       Vec(15, 15, 15), Vec(0, 0, 10),  Vec(0, 0, 0)),
       Button("Top",           Vec(0, 0, 25),   Vec(0, 0, 10),  Vec(0, 0, 0)),
       Button("Lateral Right", Vec(25, 0, 0),   Vec(0, 0, 10),  Vec(0, 0, 0)),
       Button("Lateral Left",  Vec(0 - 25, 0, 0), Vec(0, 0, 10), Vec(0, 0, 0)),
       Button("Front",         Vec(0, 25, 0),   Vec(0, 10, 10), Vec(0, 0, 0)),
       Button("Rear",          Vec(0, 0 - 25, 0), Vec(0, 10, 10), Vec(0, 0, 0)) >>

Buttons ==
    << Button("Default",       Vec(15, 15, 15), Vec(0, 0, 10),  Vec(0, 0, 0)),
       Button("Top",           Vec(0, 0, 25),   Vec(0, 10, 0),  Vec(0, 0, 0)),
       Button("Lateral Right", Vec(25, 0, 0),   Vec(0, 0, 10),  Vec(0, 0, 0)),
       Button("Lateral Left",  Vec(0 - 25, 0, 0), Vec(0, 0, 10), Vec(0, 0, 0)),
       Button("Front",         Vec(0, 25, 0),   Vec(0, 10, 10), Vec(0, 0, 0)),
       Button("Rear",          Vec(0, 0 - 25, 0), Vec(0, 10, 10), Vec(0, 0, 0)) >>

Axis == [showticklabels |-> FALSE, showgrid |-> FALSE, showline |-> TRUE,
         zeroline |-> FALSE, showbackground |-> FALSE]

(* the three fig.update_layout calls *)
Layout ==
    [title |-> "<b>Lissajous Knot</b>",
     template |-> "plotly_dark",
     width |-> FigWidth, height |-> FigHeight,
     scene_camera |-> [eye |-> Vec(15, 15, 15), up |-> Vec(0, 0, 10),
                       center |-> Vec(0, 0, 0),
                       projection_type |-> "orthographic"],
     scene |-> [xaxis |-> Axis, yaxis |-> Axis, zaxis |-> Axis],
     plot_bgcolor |-> "rgba(0, 0, 0, 0)",
     paper_bgcolor |-> "rgba(0, 0, 0, 0)",
     updatemenus |-> Buttons]

(* mutant: one figure kept between calls, traces added to those it holds *)
StaleFigureData == figure.data

(* fig = go.Figure() *)
NewFigureData == <<>>

plot_curves(c) ==
    LET n_points == Len(c.x)
    IN  [data |-> NewFigureData \o Loop(c, 0, n_points), layout |-> Layout]

(***************************************************************************)
(* State.                                                                  *)
(*   inputs : the values of the six dcc.Input components                   *)
(*   curve  : the arrays returned by the last lissajous_knot call          *)
(*   figure : the figure property of the dcc.Graph "display"               *)
(*   active : index of the highlighted camera button (showactive=True)     *)
(*   op     : the last operation performed                                 *)
(*   memo   : history variable, an earlier invocation of update_graph      *)
(***************************************************************************)
NoCurve == [x |-> <<>>, y |-> <<>>, z |-> <<>>,
            x_offset |-> <<>>, y_offset |-> <<>>, z_offset |-> <<>>]
NoFigure == [data |-> <<>>, layout |-> "none"]
NoMemo == [recorded |-> FALSE]

Init ==
    /\ inputs = DefaultInputs
    /\ curve = NoCurve
    /\ figure = NoFigure
    /\ active = 0
    /\ op = "init"
    /\ memo = NoMemo

(* update_graph(a, b, c, phi1, phi2, n_points): the callback's output      *)
(* replaces the figure of the graph, which resets the camera and the menu  *)
update_graph(in) ==
    /\ inputs' = in
    /\ curve' = lissajous_knot(in.a, in.b, in.c, in.phi1, in.phi2, in.n_points)
    /\ figure' = plot_curves(curve')
    /\ active' = 0
    /\ op' = "update_graph"

(* Dash fires the callback once when the page loads *)
PageLoad ==
    /\ op = "init"
    /\ update_graph(inputs)
    /\ UNCHANGED memo

(* a change of one Input component fires the callback with all six values *)
ChangeInput(id, value) ==
    /\ op # "init"
    /\ inputs[id] # value
    /\ update_graph([inputs EXCEPT ![id] = value])

(* mutant: the camera replaced as a whole, losing the projection type *)
RelayoutWholeCamera(fig, args) ==
    [fig EXCEPT !.layout.scene_camera =
        [eye |-> args.eye, up |-> args.up, center |-> args.center,
         projection_type |-> "perspective"]]

(* plotly's relayout with a button's args: sets the three camera keys *)
Relayout(fig, args) ==
    [fig EXCEPT !.layout.scene_camera.eye = args.eye,
                !.layout.scene_camera.up = args.up,
                !.layout.scene_camera.center = args.center]

(* a click on button i of the updatemenus of the displayed figure *)
SelectPreset(i) ==
    /\ op # "init"
    /\ i # active
    /\ figure' = Relayout(figure, figure.layout.updatemenus[i + 1].args)
    /\ active' = i
    /\ op' = "relayout"
    /\ UNCHANGED <<inputs, curve, memo>>

Next ==
    \/ PageLoad
    \/ \E v \in Freqs : ChangeInput("a", v) /\ UNCHANGED memo
    \/ \E v \in Freqs : ChangeInput("b", v) /\ UNCHANGED memo
    \/ \E v \in Freqs : ChangeInput("c", v) /\ UNCHANGED memo
    \/ \E v \in Phases : ChangeInput("phi1", v) /\ UNCHANGED memo
    \/ \E v \in Phases : ChangeInput("phi2", v) /\ UNCHANGED memo
    \/ \E v \in NPoints : ChangeInput("n_points", v) /\ UNCHANGED memo
    \/ \E i \in 0..(Len(Buttons) - 1) : SelectPreset(i)

Spec == Init /\ [][Next]_vars

(***************************************************************************)
(* Observation of the history for the determinism property: Record keeps  *)
(* one invocation of update_graph (its inputs and outputs) in memo, and   *)
(* later invocations note whether one with other inputs came in between.  *)
(* The history is observed while the inputs a and n_points change.        *)
(***************************************************************************)
Record ==
    /\ op = "update_graph"
    /\ ~memo.recorded
    /\ memo' = [recorded |-> TRUE, inputs |-> inputs, curve |-> curve,
                figure |-> figure, between |-> FALSE]
    /\ UNCHANGED <<inputs, curve, figure, active, op>>

Noting(in) ==
    memo' = IF memo.recorded /\ in # memo.inputs
            THEN [memo EXCEPT !.between = TRUE]
            ELSE memo

NextHist ==
    \/ PageLoad
    \/ Record
    \/ \E v \in Freqs : ChangeInput("a", v) /\ Noting(inputs')
    \/ \E v \in NPoints : ChangeInput("n_points", v) /\ Noting(inputs')
    \/ \E i \in 0..(Len(Buttons) - 1) : SelectPreset(i)

SpecHist == Init /\ [][NextHist]_vars

(***************************************************************************)
(* Vocabulary of the properties                                            *)
(***************************************************************************)
Groups == <<"3D", "X Offset", "Y Offset", "Z Offset">>

Built == op = "update_graph"
Shown == op # "init"

(* the traces of group g, in the order of the figure's data *)
GroupTraces(g) == SelectSeq(figure.data, LAMBDA t : t.name = g)

(* the sampled point with 0-based index k, and the index following it on   *)
(* the closed curve                                                        *)
PointCount == Len(curve.x)
Succ(k) == IF k = PointCount - 1 THEN 0 ELSE k + 1

(* offset_ratio * min(array) *)
Plane(arr) == (Min(arr) * Offset) \div 10

(* the x, y, z pairs a segment of group g from point j to point k must have *)
ExpectedX(g, j, k) ==
    IF g = "X Offset" THEN <<Plane(curve.x), Plane(curve.x)>>
    ELSE <<curve.x[j + 1], curve.x[k + 1]>>
ExpectedY(g, j, k) ==
    IF g = "Y Offset" THEN <<Plane(curve.y), Plane(curve.y)>>
    ELSE <<curve.y[j + 1], curve.y[k + 1]>>
ExpectedZ(g, j, k) ==
    IF g = "Z Offset" THEN <<Plane(curve.z), Plane(curve.z)>>
    ELSE <<curve.z[j + 1], curve.z[k + 1]>>

Joins(t, g, j, k) ==
    /\ t.x = ExpectedX(g, j, k)
    /\ t.y = ExpectedY(g, j, k)
    /\ t.z = ExpectedZ(g, j, k)

(* C1: for a curve of n_points >= 2 points plot_curves completes and every *)
(* group holds exactly n_points segments; segment n joins point n to point *)
(* n+1 for n < n_points-1 and the last one joins point n_points-1 to 0.    *)
C1_Closure ==
    (Shown /\ inputs.n_points >= 2) =>
        /\ PointCount = inputs.n_points
        /\ \A gi \in 1..4 :
             LET g == Groups[gi]
                 seg == GroupTraces(g)
             IN  /\ Len(seg) = PointCount
                 /\ \A n \in 0..(PointCount - 2) : Joins(seg[n + 1], g, n, n + 1)
                 /\ Joins(seg[PointCount], g, PointCount - 1, 0)

C1_Witness ==
    /\ Built
    /\ inputs.n_points = 2
    /\ Len(GroupTraces("3D")) = 2
    /\ Len(figure.data) = 8
    /\ curve.x[1] # curve.x[2]
    /\ GroupTraces("3D")[2].x = <<curve.x[2], curve.x[1]>>

(* C2 as stated: an invocation with n_points = 1 fails and leaves no      *)
(* scene, so no invocation with n_points = 1 ever completes with a scene. *)
C2_FailsOnOnePoint ==
    ~(Built /\ inputs.n_points = 1 /\ figure # NoFigure)

(* C2 amended: an invocation with n_points = 1 completes; the curve has    *)
(* one point and the scene four traces, one per group in the order 3D,     *)
(* X Offset, Y Offset, Z Offset, each joining point 0 to itself.           *)
C2_OnePointScene ==
    (Built /\ inputs.n_points = 1) =>
        /\ PointCount = 1
        /\ Len(figure.data) = 4
        /\ \A gi \in 1..4 :
             /\ figure.data[gi].name = Groups[gi]
             /\ Joins(figure.data[gi], Groups[gi], 0, 0)

C2_Witness ==
    /\ Built
    /\ inputs.n_points = 1
    /\ Len(figure.data) = 4
    /\ figure.data[1].x = <<curve.x[1], curve.x[1]>>

(* C3: every segment of the "X Offset" group has both x values equal to    *)
(* the one scalar offset_ratio * min(x array) and the real y, z of its two *)
(* endpoints; likewise "Y Offset" for y and "Z Offset" for z; the value is *)
(* the same for every segment index, the wrap-around segment included.     *)
C3_OffsetPlanes ==
    Shown =>
        /\ \A i \in 1..PointCount :
             /\ curve.x_offset[i] = Plane(curve.x)
             /\ curve.y_offset[i] = Plane(curve.y)
             /\ curve.z_offset[i] = Plane(curve.z)
        /\ \A n \in 0..(PointCount - 1) :
             LET sx == GroupTraces("X Offset")[n + 1]
                 sy == GroupTraces("Y Offset")[n + 1]
                 sz == GroupTraces("Z Offset")[n + 1]
                 xs == <<curve.x[n + 1], curve.x[Succ(n) + 1]>>
                 ys == <<curve.y[n + 1], curve.y[Succ(n) + 1]>>
                 zs == <<curve.z[n + 1], curve.z[Succ(n) + 1]>>
             IN  /\ sx.x = <<Plane(curve.x), Plane(curve.x)>>
                 /\ sx.y = ys /\ sx.z = zs
                 /\ sy.y = <<Plane(curve.y), Plane(curve.y)>>
                 /\ sy.x = xs /\ sy.z = zs
                 /\ sz.z = <<Plane(curve.z), Plane(curve.z)>>
                 /\ sz.x = xs /\ sz.y = ys

(* a curve whose x values differ, so that the plane is not a point's own x *)
C3_Witness ==
    /\ Built
    /\ PointCount >= 3
    /\ \E i \in 1..PointCount : curve.x[i] # Min(curve.x)
    /\ GroupTraces("X Offset")[PointCount].x = <<Plane(curve.x), Plane(curve.x)>>

(* a frequency that is an integer *)
IsInteger(f) == f % FreqDen = 0

(* C4: for integer a, b, c and n_points >= 2 lissajous_knot returns x, y,  *)
(* z and the three offset sequences of length exactly n_points, and every  *)
(* x, y, z coordinate lies in [-1, 1].  (Stated for every frequency of the *)
(* model, the integers among them.)                                        *)
InUnit(v) == (0 - Scale) <= v /\ v <= Scale

C4_LengthAndRange ==
    (Shown /\ inputs.n_points >= 2) =>
        /\ \A f \in {"x", "y", "z", "x_offset", "y_offset", "z_offset"} :
             Len(curve[f]) = inputs.n_points
        /\ \A f \in {"x", "y", "z"} :
             \A i \in 1..inputs.n_points : InUnit(curve[f][i])

(* integer frequencies, and a curve that reaches both ends of the range *)
C4_Witness ==
    /\ Built
    /\ inputs.n_points >= 3
    /\ IsInteger(inputs.a) /\ IsInteger(inputs.b) /\ IsInteger(inputs.c)
    /\ inputs.a # 0
    /\ \E i, j \in 1..PointCount : curve.z[i] = Scale /\ curve.z[j] = 0 - Scale

(* C5: every scene carries the same six camera presets whatever the curve: *)
(* Default eye (1.5,1.5,1.5) up (0,0,1); Top eye (0,0,2.5) up (0,1,0);     *)
(* Lateral Right eye (2.5,0,0) up (0,0,1); Lateral Left eye (-2.5,0,0) up  *)
(* (0,0,1); Front eye (0,2.5,0) up (0,1,1); Rear eye (0,-2.5,0) up         *)
(* (0,1,1); all with center (0,0,0).  Selecting "Top" yields eye           *)
(* (0,0,2.5), up (0,1,0), center (0,0,0) whatever the parameters.          *)
PresetTable ==
    << <<"Default",       <<15, 15, 15>>,   <<0, 0, 10>>>>,
       <<"Top",           <<0, 0, 25>>,     <<0, 10, 0>>>>,
       <<"Lateral Right", <<25, 0, 0>>,     <<0, 0, 10>>>>,
       <<"Lateral Left",  <<0 - 25, 0, 0>>, <<0, 0, 10>>>>,
       <<"Front",         <<0, 25, 0>>,     <<0, 10, 10>>>>,
       <<"Rear",          <<0, 0 - 25, 0>>, <<0, 10, 10>>>> >>

Triple(v) == <<v.x, v.y, v.z>>

C5_CameraPresets ==
    Shown =>
        /\ Len(figure.layout.updatemenus) = 6
        /\ \A i \in 1..6 :
             LET b == figure.layout.updatemenus[i]
             IN  /\ b.label = PresetTable[i][1]
                 /\ Triple(b.args.eye) = PresetTable[i][2]
                 /\ Triple(b.args.up) = PresetTable[i][3]
                 /\ Triple(b.args.center) = <<0, 0, 0>>
        /\ (op = "relayout" /\ active = 1) =>
             /\ Triple(figure.layout.scene_camera.eye) = <<0, 0, 25>>
             /\ Triple(figure.layout.scene_camera.up) = <<0, 10, 0>>
             /\ Triple(figure.layout.scene_camera.center) = <<0, 0, 0>>

(* "Top" selected on a scene built from other parameters than the initial *)
C5_Witness ==
    /\ op = "relayout"
    /\ active = 1
    /\ inputs.a # DefaultInputs.a
    /\ inputs.n_points # DefaultInputs.n_points
    /\ Triple(figure.layout.scene_camera.eye) = <<0, 0, 25>>

(* C6: within each group exactly one segment has a visible legend entry,   *)
(* the one with index 0; every segment carries its group's name as name    *)
(* and as legend group.                                                    *)
C6_Legend ==
    Shown =>
        /\ \A i \in 1..Len(figure.data) :
             /\ figure.data[i].name \in {Groups[gi] : gi \in 1..4}
             /\ figure.data[i].legendgroup = figure.data[i].name
        /\ \A gi \in 1..4 :
             LET seg == GroupTraces(Groups[gi])
             IN  /\ Len(seg) >= 1
                 /\ seg[1].showlegend = TRUE
                 /\ \A n \in 2..Len(seg) : seg[n].showlegend = FALSE
                 /\ Cardinality({n \in 1..Len(seg) : seg[n].showlegend}) = 1

C6_Witness ==
    /\ Built
    /\ Len(GroupTraces("Z Offset")) = 3
    /\ GroupTraces("Z Offset")[1].showlegend
    /\ ~GroupTraces("Z Offset")[3].showlegend

(* C7: two invocations of update_graph with identical parameters produce   *)
(* identical curve, offsets and scene, whatever invocations with other     *)
(* parameters and whatever preset selections happened in between.          *)
C7_Determinism ==
    (memo.recorded /\ Built /\ inputs = memo.inputs) =>
        /\ curve = memo.curve
        /\ figure = memo.figure

(* the recorded parameters invoked again after an invocation with others *)
C7_Witness ==
    /\ memo.recorded
    /\ memo.between
    /\ Built
    /\ inputs = memo.inputs
    /\ inputs.n_points >= 2
    /\ figure = memo.figure

(* C8: selecting a camera preset changes only the camera's eye, up and     *)
(* center: the curve is not recomputed, and every trace, the styling, the  *)
(* layout flags and the projection type stay as they were.                 *)
C8_PresetFrame ==
    [][ op' = "relayout" =>
          /\ inputs' = inputs
          /\ curve' = curve
          /\ figure'.data = figure.data
          /\ [figure'.layout EXCEPT
                !.scene_camera.eye = figure.layout.scene_camera.eye,
                !.scene_camera.up = figure.layout.scene_camera.up,
                !.scene_camera.center = figure.layout.scene_camera.center]
             = figure.layout ]_vars

(* the Front preset selected: the camera moved, the scene as it was built *)
C8_Witness ==
    /\ op = "relayout"
    /\ active = 4
    /\ Triple(figure.layout.scene_camera.up) = <<0, 10, 10>>
    /\ figure.layout.scene_camera.projection_type = "orthographic"
    /\ Len(figure.data) = 4 * inputs.n_points

(* C9: t is sampled uniformly over [-pi, pi] with both ends included       *)
(* (sample i at -pi + i * 2*pi/(n_points-1)), x = cos(a*t + phi1),         *)
(* y = cos(b*t + phi2), z = cos(c*t); hence with integer a, b, c and       *)
(* phases that are multiples of pi the last sample equals the first and    *)
(* the wrap-around segment has zero length.                                *)
MultipleOfPi(phi) == phi % PhaseDen = 0

C10_Interleaved ==
    Shown =>
        /\ Len(figure.data) = 4 * PointCount
        /\ \A n \in 0..(PointCount - 1) :
             \A gi \in 1..4 :
                LET t == figure.data[4 * n + gi]
                IN  /\ t.name = Groups[gi]
                    /\ Joins(t, Groups[gi], n, Succ(n))

C10_Witness ==
    /\ Built
    /\ PointCount = 3
    /\ figure.data[5].name = "3D"
    /\ figure.data[8].name = "Z Offset"
    /\ figure.data[9].name = "3D"
    /\ figure.data[5].x = <<curve.x[2], curve.x[3]>>

====
